---- MODULE Spec2Model ----
(***************************************************************************)
(* A model of cumulusci/tasks/sfdx.py: the wrapper tasks that run the sfdx *)
(* CLI, read its output line by line as JSON records and, for deployments, *)
(* poll a job until it reports completion.                                 *)
(*                                                                         *)
(* Strings that the code builds with str.format are sequences of words     *)
(* (one word per blank-separated argument); an output line is the sequence *)
(* of its JSON tokens; a Python value is a pair <<type, text>>.            *)
(***************************************************************************)
EXTENDS Integers, Sequences, FiniteSets, TLC

\* Bounds of the exploration: output lines read in one run, processes started
\* in one run.
MaxLines == 3
MaxProcs == 3

----------------------------------------------------------------------------
(* Python values                                                           *)

None == <<"NoneType", "None">>

PyStr(s) == <<"str", s>>

\* bool(v) for the scalar values the records carry
Truthy(v) ==
    CASE v[1] = "NoneType" -> FALSE
      [] v[1] = "bool" -> v[2] = "true"
      [] v[1] = "int" -> v[2] # "0"
      [] v[1] = "str" -> v[2] # ""
      [] OTHER -> TRUE

EmptyItems == [k \in {} |-> None]

PyDict(items) == [type |-> "dict", items |-> items, scalar |-> None]

PyScalar(v) == [type |-> v[1], items |-> EmptyItems, scalar |-> v]

\* return_values has no 'data' key yet
NoData == [type |-> "<no data>", items |-> EmptyItems, scalar |-> None]

----------------------------------------------------------------------------
(* json.loads on the token sequence of a line                              *)

StringTokens ==
    {"\"id\"", "\"done\"", "\"status\"", "\"message\"",
     "\"J1\"", "\"J2\"", "\"\"", "\"bad path\"", "\"other\""}

LiteralTokens == {"true", "false", "null", "0", "1", "5"}

\* the text between the quotes of a string token
Unquote(t) ==
    CASE t = "\"id\"" -> "id"
      [] t = "\"done\"" -> "done"
      [] t = "\"status\"" -> "status"
      [] t = "\"message\"" -> "message"
      [] t = "\"J1\"" -> "J1"
      [] t = "\"J2\"" -> "J2"
      [] t = "\"\"" -> ""
      [] t = "\"bad path\"" -> "bad path"
      [] t = "\"other\"" -> "other"

DecodeToken(t) ==
    IF t \in StringTokens THEN PyStr(Unquote(t))
    ELSE IF t \in {"true", "false"} THEN <<"bool", t>>
    ELSE IF t = "null" THEN None
    ELSE <<"int", t>>

ParseFailure == [ok |-> FALSE, value |-> NoData]

\* dict item assignment: a repeated key keeps the later value
SetItem(items, key, val) ==
    [k \in (DOMAIN items) \cup {key} |-> IF k = key THEN val ELSE items[k]]

RECURSIVE ParseMembers(_, _, _)
ParseMembers(toks, i, items) ==
    IF i + 3 > Len(toks) THEN ParseFailure
    ELSE IF ~(/\ toks[i] \in StringTokens
              /\ toks[i + 1] = ":"
              /\ toks[i + 2] \in StringTokens \cup LiteralTokens) THEN ParseFailure
    ELSE LET items2 == SetItem(items, Unquote(toks[i]), DecodeToken(toks[i + 2]))
         IN  IF toks[i + 3] = "}" /\ i + 3 = Len(toks)
                 THEN [ok |-> TRUE, value |-> PyDict(items2)]
             ELSE IF toks[i + 3] = ","
                 THEN ParseMembers(toks, i + 4, items2)
             ELSE ParseFailure

json_loads(toks) ==
    IF Len(toks) = 0 THEN ParseFailure
    ELSE IF Len(toks) = 1
        THEN IF toks[1] \in StringTokens \cup LiteralTokens
                 THEN [ok |-> TRUE, value |-> PyScalar(DecodeToken(toks[1]))]
                 ELSE ParseFailure
    ELSE IF toks[1] # "{" THEN ParseFailure
    ELSE IF Len(toks) = 2
        THEN IF toks[2] = "}" THEN [ok |-> TRUE, value |-> PyDict(EmptyItems)]
                              ELSE ParseFailure
    ELSE ParseMembers(toks, 2, EmptyItems)

\* The lines a process of the model can print.
Lines ==
    { <<"{", "\"id\"", ":", "\"J1\"", ",", "\"done\"", ":", "false", "}">>,
      <<"{", "\"id\"", ":", "\"J2\"", "}">>,
      <<"{", "\"id\"", ":", "\"\"", "}">>,
      <<"{", "\"done\"", ":", "false", "}">>,
      <<"{", "\"done\"", ":", "true", "}">>,
      <<"{", "\"done\"", ":", "false", ",", "\"done\"", ":", "true", "}">>,
      <<"{", "\"status\"", ":", "0", "}">>,
      <<"{", "\"status\"", ":", "1", ",", "\"message\"", ":", "\"bad path\"", "}">>,
      <<"{", "\"message\"", ":", "\"other\"", "}">>,
      <<"{", "}">>,
      <<"5">>,
      <<"{", "\"id\"", ":", "\"J1\"", ",">>,
      <<"Deploying">> }

----------------------------------------------------------------------------
(* The task object                                                         *)

VARIABLES
    kind,           \* the class of the task instance
    org_config,     \* class of self.org_config
    options,        \* self.options after construction
    return_values,  \* self.return_values['data'], NoData while the key is unset
    job_id,         \* self.job_id
    poll_complete,  \* self.poll_complete
    raised,         \* the exception that ended the run, "none" while there is none
    raisedArg,      \* its argument
    procs,          \* every process started so far, in order
    running,        \* indices into procs of the processes that have not exited, innermost last
    fed,            \* every line handed to _process_output so far, with its process
    returncode,     \* <<rc>> of the last process that exited, <<>> before
    finished,       \* _run_task has returned normally
    dataCalls,      \* calls of the _process_data hook
    doneCalls,      \* evaluations of _check_poll_done
    started,        \* the local `started` of the last SFDXJsonPollingTask._process_output
    startCalls,     \* job-start steps: self.job_id = data['id']; self._poll()
    waiting         \* _poll is between two calls of _poll_action

vars == <<kind, org_config, options, return_values, job_id, poll_complete, raised,
          raisedArg, procs, running, fed, returncode, finished, dataCalls, doneCalls,
          started, startCalls, waiting>>

SFDX_CLI == "sfdx"

Kinds == {"SFDXOrgTask", "SFDXJsonTask", "SFDXJsonPollingTask",
          "SFDXConvertFrom", "SFDXConvertTo", "SFDXDeploy"}

\* classes below SFDXJsonPollingTask, SFDXOrgTask, SFDXJsonTask in the hierarchy
PollingKinds == {"SFDXJsonPollingTask", "SFDXDeploy"}
OrgKinds == {"SFDXOrgTask", "SFDXDeploy"}
JsonKinds == Kinds \ {"SFDXOrgTask"}

\* an option that was not given
NoOpt == <<"<unset>">>

\* the org of a session-bound task
OrgConfigs == {"ScratchOrgConfig", "OrgConfig"}
Username == "test@scratch.org"
InstanceUrl == "https://x"
AccessToken == "abc"

\* the class attribute `command`
ClassCommand(k) ==
    CASE k = "SFDXConvertFrom" -> <<"force:source:convert">>
      [] k = "SFDXConvertTo" -> <<"force:mdapi:convert">>
      [] OTHER -> <<"force", "--help">>

SFDXBaseTask_get_command(k, org, opts) ==
    <<SFDX_CLI>> \o (IF opts.command # NoOpt THEN opts.command ELSE ClassCommand(k))

SFDXOrgTask_get_command(k, org, opts) ==
    SFDXBaseTask_get_command(k, org, opts)
        \o (IF org = "ScratchOrgConfig" THEN <<"-u", Username>> ELSE << >>)

SFDXConvert_get_command(k, org, opts) ==
    SFDXBaseTask_get_command(k, org, opts) \o <<"-r">> \o opts.src \o <<"-d">> \o opts.dest \o <<"--json">>

SFDXDeploy_get_command(k, org, opts) ==
    SFDXOrgTask_get_command(k, org, opts)
        \o <<"-d">> \o (IF opts.path # NoOpt THEN opts.path ELSE <<"NO_PATH_PROVIDED">>)

\* self._get_command(), by the class of self
get_command(k, org, opts) ==
    CASE k = "SFDXDeploy" -> SFDXDeploy_get_command(k, org, opts)
      [] k = "SFDXOrgTask" -> SFDXOrgTask_get_command(k, org, opts)
      [] k \in {"SFDXConvertFrom", "SFDXConvertTo"} -> SFDXConvert_get_command(k, org, opts)
      [] OTHER -> SFDXBaseTask_get_command(k, org, opts)

\* SFDXOrgTask._init_options calls self._add_username, which sfdx.py does not
\* define: by the comment at the call it adds the username to the command
\* when the org needs it on the command line.
add_username(org, command) ==
    IF org = "ScratchOrgConfig" THEN command \o <<"-u", Username>> ELSE command

SFDXBaseTask_init_options(k, org, given) ==
    [given EXCEPT !.command = get_command(k, org, given)]

SFDXOrgTask_init_options(k, org, given) ==
    LET o1 == SFDXBaseTask_init_options(k, org, given)
        o2 == [o1 EXCEPT !.command = add_username(org, o1.command)]
    IN  IF o2.extra # NoOpt /\ o2.extra # << >>
            THEN [o2 EXCEPT !.command = o2.command \o o2.extra]
            ELSE o2

SFDXConvert_init_options(k, org, given) ==
    LET o1 == [given EXCEPT
                  !.src = IF given.src # NoOpt THEN given.src
                          ELSE IF k = "SFDXConvertFrom" THEN <<"force-app">> ELSE <<"src">>,
                  !.dest = IF given.dest # NoOpt THEN given.dest
                           ELSE IF k = "SFDXConvertFrom" THEN <<"src">> ELSE <<"force-app">>,
                  !.command = ClassCommand(k)]
    IN  SFDXBaseTask_init_options(k, org, o1)

SFDXDeploy_init_options(k, org, given) ==
    LET o1 == SFDXOrgTask_init_options(k, org, given)
    IN  [o1 EXCEPT !.command = get_command(k, org, o1)]

\* self._init_options(kwargs), by the class of self
init_options(k, org, given) ==
    CASE k = "SFDXDeploy" -> SFDXDeploy_init_options(k, org, given)
      [] k = "SFDXOrgTask" -> SFDXOrgTask_init_options(k, org, given)
      [] k \in {"SFDXConvertFrom", "SFDXConvertTo"} -> SFDXConvert_init_options(k, org, given)
      [] OTHER -> SFDXBaseTask_init_options(k, org, given)

\* Command._get_env: the environment the task inherits
InheritedEnv == [v \in {"PATH"} |-> "/usr/bin"]

Command_get_env == InheritedEnv

\* Faulty variant of SFDXOrgTask_get_env: the session variables are set for
\* every org.
SFDXOrgTask_get_env_always(org) ==
    SetItem(SetItem(Command_get_env, "SFDX_INSTANCE_URL", InstanceUrl),
            "SFDX_USERNAME", AccessToken)

SFDXOrgTask_get_env(org) ==
    IF org # "ScratchOrgConfig"
        THEN SetItem(SetItem(Command_get_env, "SFDX_INSTANCE_URL", InstanceUrl),
                     "SFDX_USERNAME", AccessToken)
        ELSE Command_get_env

\* self._get_env(), by the class of self
get_env(k, org) ==
    IF k \in OrgKinds THEN SFDXOrgTask_get_env(org) ELSE Command_get_env

\* the options a task is constructed with
GivenOptions(k) ==
    [command : IF k \in OrgKinds THEN {NoOpt, <<"force:mdapi:deploy">>} ELSE {NoOpt},
     extra : IF k = "SFDXOrgTask" THEN {NoOpt, <<"--json">>} ELSE {NoOpt},
     path : IF k = "SFDXDeploy" THEN {NoOpt, <<"md">>} ELSE {NoOpt},
     src : IF k = "SFDXConvertFrom" THEN {NoOpt, <<"dx">>} ELSE {NoOpt},
     dest : {NoOpt}]

Init ==
    /\ kind \in Kinds
    /\ org_config \in IF kind \in OrgKinds THEN OrgConfigs ELSE {"NoneType"}
    /\ \E given \in GivenOptions(kind) : options = init_options(kind, org_config, given)
    /\ return_values = NoData
    /\ job_id = None
    /\ poll_complete = FALSE
    /\ raised = "none"
    /\ raisedArg = None
    /\ procs = << >>
    /\ running = << >>
    /\ fed = << >>
    /\ returncode = << >>
    /\ finished = FALSE
    /\ dataCalls = 0
    /\ doneCalls = 0
    /\ started = FALSE
    /\ startCalls = 0
    /\ waiting = FALSE

----------------------------------------------------------------------------
(* One run of the task.  The operators below take the mutable part of the  *)
(* task as a record t and return it as the method leaves it; a method that *)
(* starts a process returns with that process pushed on t.running, and the *)
(* rest of the method is resumed when the process exits (ProcessExit).     *)

Task ==
    [data |-> return_values, job_id |-> job_id, poll_complete |-> poll_complete,
     raised |-> raised, raisedArg |-> raisedArg, procs |-> procs, running |-> running,
     dataCalls |-> dataCalls, doneCalls |-> doneCalls,
     started |-> started, startCalls |-> startCalls]

Raise(t, exc, arg) == [t EXCEPT !.raised = exc, !.raisedArg = arg]

\* the call returned to its caller: it neither raised nor is it waiting for a process
Returned(t0, t1) == t1.raised = "none" /\ t1.running = t0.running

\* Command._run_command(env, command=None): starts a process running `command`,
\* or options['command'] when no command is passed, and hands its lines to
\* self._process_output and its exit code to self._handle_returncode.  The
\* record of the process keeps what the caller passed (requested) and the
\* job id the task held when it started.
Command_run_command(t, env, command, poll) ==
    LET proc == [command |-> IF command = None THEN options.command ELSE command,
                 env |-> env, poll |-> poll, requested |-> command,
                 job_id |-> t.job_id]
    IN  [t EXCEPT !.procs = Append(@, proc), !.running = Append(@, Len(t.procs) + 1)]

\* Command._handle_returncode: CommandException on a non-zero exit code, with the
\* last record's message when it has one
Command_handle_returncode(t, rc) ==
    IF rc # 0
        THEN IF t.data.type = "dict" /\ "message" \in DOMAIN t.data.items
                 THEN Raise(t, "CommandException", t.data.items["message"])
                 ELSE Raise(t, "CommandException", <<"Return code", ToString(rc)>>)
        ELSE t

\* Faulty variant of SFDXConvertFrom_handle_returncode: the exception carries
\* the exit code instead of the record's message.
SFDXConvertFrom_handle_returncode_generic(t, rc) ==
    IF rc # 0 THEN Raise(t, "CommandException", <<"Return code", ToString(rc)>>) ELSE t

SFDXConvertFrom_handle_returncode(t, rc) ==
    IF rc # 0
        THEN IF t.data.type = "<no data>" THEN Raise(t, "KeyError", PyStr("data"))
             ELSE IF t.data.type # "dict" THEN Raise(t, "TypeError", PyStr("message"))
             ELSE IF "message" \notin DOMAIN t.data.items
                 THEN Raise(t, "KeyError", PyStr("message"))
             ELSE Raise(t, "CommandException", t.data.items["message"])
        ELSE t

\* self._handle_returncode(returncode, stderr), by the class of self
handle_returncode(t, rc) ==
    IF kind = "SFDXConvertFrom" THEN SFDXConvertFrom_handle_returncode(t, rc)
                                ELSE Command_handle_returncode(t, rc)

\* parameters of _check_poll_done besides self
check_poll_done_params == 0

\* the body of _check_poll_done: data.get('done', True)
SFDXJsonPollingTask_check_poll_done(data) ==
    IF data.type # "dict" THEN [raised |-> "AttributeError", value |-> None]
    ELSE IF "done" \in DOMAIN data.items
        THEN [raised |-> "none", value |-> data.items["done"]]
        ELSE [raised |-> "none", value |-> <<"bool", "true">>]

\* a call self._check_poll_done(*args): Python binds the arguments first
call_check_poll_done(data, args) ==
    IF Len(args) # check_poll_done_params
        THEN [raised |-> "TypeError", value |-> None]
        ELSE SFDXJsonPollingTask_check_poll_done(data)

SFDXJsonPollingTask_process_poll_data(t) ==
    LET r == call_check_poll_done(t.data, <<t.data>>)
    IN  IF r.raised # "none" THEN Raise(t, r.raised, PyStr("_check_poll_done"))
        ELSE [t EXCEPT !.doneCalls = @ + 1,
                       !.poll_complete = IF Truthy(r.value) THEN TRUE ELSE @]

SFDXJsonPollingTask_get_poll_command(jid) ==
    [raised |-> "NotImplementedError", value |-> None]

SFDXDeploy_get_poll_command(jid) ==
    IF ~Truthy(jid) THEN [raised |-> "none", value |-> None]
    ELSE [raised |-> "none",
          value |-> SFDXOrgTask_get_command(kind, org_config, options) \o <<"-i", jid[2]>>]

\* self._get_poll_command(), by the class of self
get_poll_command(jid) ==
    IF kind = "SFDXDeploy" THEN SFDXDeploy_get_poll_command(jid)
                           ELSE SFDXJsonPollingTask_get_poll_command(jid)

\* Faulty variant of SFDXJsonPollingTask_poll_action: an error of
\* _get_poll_command is kept but the process is started all the same.
SFDXJsonPollingTask_poll_action_goesOn(t) ==
    LET r == get_poll_command(t.job_id)
        t1 == IF r.raised # "none" THEN Raise(t, r.raised, PyStr("_get_poll_command")) ELSE t
    IN  Command_run_command(t1, get_env(kind, org_config), r.value, TRUE)

\* Faulty variant of SFDXJsonPollingTask_poll_action: the poll runs in the
\* environment of Command, without the session of the org.
SFDXJsonPollingTask_poll_action_plainEnv(t) ==
    LET r == get_poll_command(t.job_id)
    IN  IF r.raised # "none" THEN Raise(t, r.raised, PyStr("_get_poll_command"))
        ELSE Command_run_command(t, Command_get_env, r.value, TRUE)

SFDXJsonPollingTask_poll_action(t) ==
    LET r == get_poll_command(t.job_id)
    IN  IF r.raised # "none" THEN Raise(t, r.raised, PyStr("_get_poll_command"))
        ELSE Command_run_command(t, get_env(kind, org_config), r.value, TRUE)

\* BaseTask._poll: calls _poll_action until poll_complete is set.  This is
\* the first call; the loop goes on in ProcessExit.
BaseTask_poll(t) == SFDXJsonPollingTask_poll_action(t)

\* Faulty variant of SFDXJsonPollingTask_process_data: the job id is read from
\* every record.
SFDXJsonPollingTask_process_data_unguarded(t) ==
    IF t.data.type # "dict" THEN Raise(t, "TypeError", PyStr("id"))
    ELSE IF "id" \notin DOMAIN t.data.items THEN Raise(t, "KeyError", PyStr("id"))
    ELSE BaseTask_poll([t EXCEPT !.job_id = t.data.items["id"], !.startCalls = @ + 1])

SFDXJsonPollingTask_process_data(t) ==
    IF Truthy(t.job_id) THEN SFDXJsonPollingTask_process_poll_data(t)
    ELSE IF t.data.type # "dict" THEN Raise(t, "TypeError", PyStr("id"))
    ELSE IF "id" \notin DOMAIN t.data.items THEN Raise(t, "KeyError", PyStr("id"))
    ELSE BaseTask_poll([t EXCEPT !.job_id = t.data.items["id"], !.startCalls = @ + 1])

\* SFDXConvertFrom._process_data and SFDXConvertTo._process_data
SFDXConvert_process_data(t) ==
    IF t.data.type # "dict" THEN Raise(t, "AttributeError", PyStr("get")) ELSE t

SFDXJsonTask_process_data(t) == t

\* self._process_data(), by the class of self
process_data(t) ==
    LET t1 == [t EXCEPT !.dataCalls = @ + 1]
    IN  CASE kind \in PollingKinds -> SFDXJsonPollingTask_process_data(t1)
          [] kind \in {"SFDXConvertFrom", "SFDXConvertTo"} -> SFDXConvert_process_data(t1)
          [] OTHER -> SFDXJsonTask_process_data(t1)

\* Faulty variant of SetData: the new record is merged into the stored one.
SetData_merging(old, new) ==
    IF old.type = "dict" /\ new.type = "dict"
        THEN PyDict([k \in (DOMAIN old.items) \cup (DOMAIN new.items) |->
                        IF k \in DOMAIN new.items THEN new.items[k] ELSE old.items[k]])
        ELSE new

\* self.return_values['data'] = json.loads(line)
SetData(old, new) == new

\* Faulty variant of OnDecodeError: the stored record is dropped before the
\* error is raised again.
OnDecodeError_dropsData(t) ==
    [Raise(t, "ValueError", PyStr("No JSON object could be decoded")) EXCEPT !.data = NoData]

\* the except branch of SFDXJsonTask._process_output: log the line and re-raise
OnDecodeError(t) == Raise(t, "ValueError", PyStr("No JSON object could be decoded"))

SFDXJsonTask_process_output(t, line) ==
    LET r == json_loads(line)
    IN  IF ~r.ok THEN OnDecodeError(t)
        ELSE process_data([t EXCEPT !.data = SetData(t.data, r.value)])

\* hasattr(self, 'job_id'): _init_task has set the attribute
hasattr_job_id == kind \in PollingKinds

\* SFDXJsonPollingTask._process_output after super()._process_output returned
AfterSuper(t, startedBefore) ==
    IF ~startedBefore THEN process_data(t) ELSE SFDXJsonPollingTask_process_poll_data(t)

SFDXJsonPollingTask_process_output(t, line) ==
    LET t0 == [t EXCEPT !.started = hasattr_job_id]
        t1 == SFDXJsonTask_process_output(t0, line)
    IN  IF Returned(t0, t1) THEN AfterSuper(t1, t0.started) ELSE t1

\* Command._process_output: logs the line
Command_process_output(t, line) == t

\* self._process_output(line), by the class of self
process_output(t, line) ==
    CASE kind \in PollingKinds -> SFDXJsonPollingTask_process_output(t, line)
      [] kind = "SFDXOrgTask" -> Command_process_output(t, line)
      [] OTHER -> SFDXJsonTask_process_output(t, line)

\* BaseTask._poll after a call of _poll_action has returned: the loop ends
\* when poll_complete is set, and the _process_output that called _poll goes
\* on after its super call; otherwise _poll_action is called again.
PollLoop(t) ==
    IF t.poll_complete THEN AfterSuper(t, t.started)
    ELSE SFDXJsonPollingTask_poll_action(t)

\* what is left of the run when the innermost process has exited with rc
AfterExit(t, proc, rc) ==
    LET t1 == handle_returncode(t, rc)
    IN  IF t1.raised # "none" \/ ~proc.poll THEN t1 ELSE PollLoop(t1)

Store(t) ==
    /\ return_values' = t.data
    /\ job_id' = t.job_id
    /\ poll_complete' = t.poll_complete
    /\ raised' = t.raised
    /\ raisedArg' = t.raisedArg
    /\ procs' = t.procs
    /\ running' = t.running
    /\ dataCalls' = t.dataCalls
    /\ doneCalls' = t.doneCalls
    /\ started' = t.started
    /\ startCalls' = t.startCalls

ExitCodes == {0, 1, 2}

\* Command._run_task: env = self._get_env(); self._run_command(env)
RunTask ==
    /\ procs = << >>
    /\ Store(Command_run_command(Task, get_env(kind, org_config), None, FALSE))
    /\ UNCHANGED <<kind, org_config, options, fed, returncode, finished, waiting>>

\* the innermost process prints a line and _run_command hands it to the task
OutputLine ==
    /\ raised = "none"
    /\ ~waiting
    /\ running # << >>
    /\ Len(fed) < MaxLines
    /\ \E line \in Lines :
        LET t == process_output(Task, line)
        IN  /\ Len(t.procs) <= MaxProcs
            /\ Store(t)
            /\ fed' = Append(fed, [proc |-> running[Len(running)], line |-> line])
    /\ UNCHANGED <<kind, org_config, options, returncode, finished, waiting>>

\* the innermost process exits and _run_command hands its exit code to the task
ProcessExit ==
    /\ raised = "none"
    /\ running # << >>
    /\ \E rc \in ExitCodes :
        LET top == running[Len(running)]
            t == AfterExit([Task EXCEPT !.running = SubSeq(running, 1, Len(running) - 1)],
                           procs[top], rc)
        IN  /\ Len(t.procs) <= MaxProcs
            /\ Store(t)
            /\ returncode' = <<rc>>
            /\ finished' = (t.raised = "none" /\ t.running = << >>)
    /\ UNCHANGED <<kind, org_config, options, fed, waiting>>

Next == RunTask \/ OutputLine \/ ProcessExit

Spec == Init /\ [][Next]_vars

----------------------------------------------------------------------------
(* The run without the history of exited poll processes: procs holds the   *)
(* initial process and the processes that are running, so that a poll loop *)
(* which goes round is a cycle of states.  BaseTask._poll is between two   *)
(* calls of _poll_action (waiting) after a poll process has exited.        *)

\* the innermost process exits; a poll process that exits without an error
\* returns to the loop of _poll
LiveProcessExit ==
    /\ raised = "none"
    /\ ~waiting
    /\ running # << >>
    /\ \E rc \in ExitCodes :
        LET top == running[Len(running)]
            t == handle_returncode(
                     [Task EXCEPT !.running = SubSeq(running, 1, Len(running) - 1)], rc)
            back == t.raised = "none" /\ procs[top].poll
        IN  /\ Store([t EXCEPT !.procs = IF back THEN SubSeq(procs, 1, top - 1) ELSE @])
            /\ returncode' = <<rc>>
            /\ waiting' = back
            /\ finished' = (t.raised = "none" /\ ~procs[top].poll)
    /\ UNCHANGED <<kind, org_config, options, fed>>

\* BaseTask._poll tests poll_complete and calls _poll_action again
LivePollAgain ==
    /\ raised = "none"
    /\ waiting
    /\ Store(PollLoop(Task))
    /\ waiting' = FALSE
    /\ UNCHANGED <<kind, org_config, options, fed, returncode, finished>>

NextLive == RunTask \/ OutputLine \/ LiveProcessExit \/ LivePollAgain

\* the task does not stop between two statements, and every process that was
\* started exits
LiveSpec ==
    /\ Init
    /\ [][NextLive]_vars
    /\ WF_vars(RunTask)
    /\ WF_vars(LiveProcessExit)
    /\ WF_vars(LivePollAgain)
----------------------------------------------------------------------------
(* Vocabulary of the properties                                            *)

L_first == <<"{", "\"id\"", ":", "\"J1\"", ",", "\"done\"", ":", "false", "}">>
L_id2 == <<"{", "\"id\"", ":", "\"J2\"", "}">>
L_notDone == <<"{", "\"done\"", ":", "false", "}">>
L_done == <<"{", "\"done\"", ":", "true", "}">>
L_status0 == <<"{", "\"status\"", ":", "0", "}">>
L_badPath == <<"{", "\"status\"", ":", "1", ",", "\"message\"", ":", "\"bad path\"", "}">>
L_other == <<"{", "\"message\"", ":", "\"other\"", "}">>

\* the lines of Lines that are not JSON
MalformedLines == { <<"{", "\"id\"", ":", "\"J1\"", ",">>, <<"Deploying">> }

\* the lines of Lines that are one JSON object
MappingLines == {l \in Lines \ MalformedLines : Len(l) > 1}

\* positions of the member names of an object line
KeyPositions(l) == {i \in 1..(Len(l) - 1) : l[i] \in StringTokens /\ l[i + 1] = ":"}

\* The value a JSON line denotes, stated member by member: a name maps to the
\* value that follows its last occurrence.
Denotes(l) ==
    IF Len(l) = 1 THEN PyScalar(DecodeToken(l[1]))
    ELSE PyDict([k \in {Unquote(l[i]) : i \in KeyPositions(l)} |->
                    LET last == CHOOSE i \in KeyPositions(l) :
                                    /\ Unquote(l[i]) = k
                                    /\ \A j \in KeyPositions(l) : Unquote(l[j]) = k => j <= i
                    IN  DecodeToken(l[last + 2])])

HasField(l, k) == l \in MappingLines /\ k \in DOMAIN Denotes(l).items

Field(l, k) == Denotes(l).items[k]

HasIdentifier(l) == HasField(l, "id") /\ Truthy(Field(l, "id"))

LastLine == fed[Len(fed)].line

\* the words a, b occur next to each other in the command
HasFlag(command, a, b) ==
    \E i \in 1..(Len(command) - 1) : command[i] = a /\ command[i + 1] = b

HasWord(command, a) == \E i \in 1..Len(command) : command[i] = a

PollProcs == {i \in DOMAIN procs : procs[i].poll}

----------------------------------------------------------------------------
(* Properties                                                              *)

\* C1: a deploy whose first record is {id: "J1", done: false} and whose polls
\* each print one record, done=false until the last one with done=true, raises
\* no error, polls once per poll record with a command naming J1, and is
\* complete after the done=true record.
C1_PollingScenario ==
    (/\ kind = "SFDXDeploy"
     /\ Len(fed) >= 1
     /\ fed[1] = [proc |-> 1, line |-> L_first]
     /\ \A i \in 2..Len(fed) :
            /\ fed[i].proc = i
            /\ fed[i].line = IF i < Len(fed) THEN L_notDone ELSE fed[i].line
            /\ fed[i].line \in {L_notDone, L_done}
     /\ returncode \in {<< >>, <<0>>})
    => /\ raised = "none"
       /\ \A i \in PollProcs : HasFlag(procs[i].command, "-i", "J1")
       /\ Cardinality(PollProcs) \in {Len(fed) - 1, Len(fed)}
       /\ (Len(fed) >= 2 /\ LastLine = L_done
              => poll_complete /\ Cardinality(PollProcs) = Len(fed) - 1)

\* C2: after a valid JSON line was handed to _process_output, the stored record
\* is the value that line denotes, whatever was stored before.
C2_LastRecordIsLine ==
    (kind \in JsonKinds /\ fed # << >> /\ LastLine \notin MalformedLines)
        => return_values = Denotes(LastLine)

C2_Witness ==
    /\ kind = "SFDXJsonTask"
    /\ Len(fed) = 2
    /\ fed[1].line = L_other
    /\ fed[2].line = L_status0
    /\ "message" \notin DOMAIN return_values.items

\* C3: a line that is not JSON raises the decode error out of _process_output,
\* leaves the stored record as it was and does not reach the _process_data hook.
C3_MalformedLine ==
    [][(kind \in JsonKinds /\ Len(fed') = Len(fed) + 1
            /\ fed'[Len(fed')].line \in MalformedLines)
          => (/\ raised' = "ValueError"
              /\ return_values' = return_values
              /\ dataCalls' = dataCalls
              /\ procs' = procs)]_vars

C3_Witness ==
    /\ raised = "ValueError"
    /\ Len(fed) = 2
    /\ fed[1].line = L_status0
    /\ return_values = Denotes(L_status0)
    /\ dataCalls = 1

\* C4: once a process has exited, a non-zero exit code has raised
\* CommandException (with the exit code as its text when the last record has
\* no message), and exit code 0 has raised nothing.
C4_ExitCode ==
    (kind \in JsonKinds /\ returncode # << >>)
        => IF returncode[1] # 0
               THEN /\ raised = "CommandException"
                    /\ (~(fed # << >> /\ HasField(LastLine, "message"))
                           => raisedArg = <<"Return code", ToString(returncode[1])>>)
               ELSE raised = "none"

\* C5: a conversion that exits non-zero after a last record with a message
\* raises CommandException with that record's message; one that prints
\* {"status": 0} and exits 0 ends without error.
C5_ConvertResult ==
    /\ (/\ kind = "SFDXConvertFrom"
        /\ returncode # << >> /\ returncode[1] # 0
        /\ fed # << >> /\ HasField(LastLine, "message"))
       => (raised = "CommandException" /\ raisedArg = Field(LastLine, "message"))
    /\ (/\ kind = "SFDXConvertFrom"
        /\ fed = <<[proc |-> 1, line |-> L_status0]>>
        /\ returncode = <<0>>)
       => (raised = "none" /\ finished)

C5_Witness ==
    /\ kind = "SFDXConvertFrom"
    /\ Len(fed) = 2
    /\ fed[1].line = L_other
    /\ fed[2].line = L_badPath
    /\ returncode = <<1>>
    /\ raisedArg = PyStr("bad path")

\* C7: no poll process is started while the task holds no job identifier: the
\* request for the poll command has raised instead.
C7_PollCommandNeedsId ==
    \A i \in PollProcs : Truthy(procs[i].job_id)

C9_SessionPassing ==
    kind \in OrgKinds =>
        \A i \in DOMAIN procs :
            IF org_config = "ScratchOrgConfig"
                THEN /\ HasFlag(procs[i].command, "-u", Username)
                     /\ DOMAIN procs[i].env \cap {"SFDX_INSTANCE_URL", "SFDX_USERNAME"} = {}
                ELSE /\ ~HasWord(procs[i].command, "-u")
                     /\ {"SFDX_INSTANCE_URL", "SFDX_USERNAME"} \subseteq DOMAIN procs[i].env
                     /\ procs[i].env["SFDX_INSTANCE_URL"] = InstanceUrl
                     /\ procs[i].env["SFDX_USERNAME"] = AccessToken

C9_Witness ==
    /\ kind = "SFDXDeploy"
    /\ org_config = "ScratchOrgConfig"
    /\ Len(procs) = 2
    /\ procs[2].poll
    /\ procs[2].requested # None

\* C10: every mapping record that reaches the completion check of a polling
\* task is checked without error, and the task is complete when the record's
\* done field is true or absent.
C10_IsDoneDefault ==
    (/\ kind \in PollingKinds
     /\ Len(fed) >= 2
     /\ LastLine \in MappingLines
     /\ \E i \in 1..(Len(fed) - 1) : HasIdentifier(fed[i].line))
    => /\ raised = "none"
       /\ doneCalls >= 1
       /\ ((HasField(LastLine, "done") => Truthy(Field(LastLine, "done"))) => poll_complete)

\* poll_complete is never set: every call of _process_poll_data raises before
\* the assignment.
NeverComplete == ~poll_complete

\* the completion a record asks for: its done field, true when it has none
DoneExpected(l) == HasField(l, "done") => Truthy(Field(l, "done"))

\* occurrences of the word w in a command
Count(command, w) == Cardinality({i \in DOMAIN command : command[i] = w})

\* C11: when the first record of a polling task has no identifier (absent or
\* falsy), handling it raises nothing, the task is complete exactly when the
\* record is done, and no poll process is started without an identifier.
C11_NoIdentifierIsTerminal ==
    (/\ kind \in PollingKinds
     /\ fed # << >>
     /\ fed[1].line \in MappingLines
     /\ ~HasIdentifier(fed[1].line))
    => /\ Len(fed) = 1 => (raised = "none" /\ (poll_complete <=> DoneExpected(fed[1].line)))
       /\ \A i \in PollProcs : Truthy(procs[i].job_id)

\* C12: at most one process started by the task has not exited.
C12_NoOverlap == Len(running) <= 1

\* C13: the `started` determination made for a line is true exactly when an
\* earlier record has assigned an identifier.
C13_StartedIffIdentifier ==
    (kind \in PollingKinds /\ fed # << >>)
        => (started <=> \E i \in 1..(Len(fed) - 1) : HasIdentifier(fed[i].line))

\* C14: a malformed line and a non-zero exit code raise an error; the step
\* that raises starts no process and leaves the task neither complete nor
\* finished; after an error the task takes no further step.
C14_ErrorsEndTheRun ==
    [][/\ (kind \in JsonKinds /\ Len(fed') = Len(fed) + 1
              /\ fed'[Len(fed')].line \in MalformedLines) => raised' # "none"
       /\ (procs # << >> /\ fed' = fed /\ returncode' # << >> /\ returncode'[1] # 0)
              => raised' # "none"
       /\ raised' # "none" => (procs' = procs /\ ~finished' /\ ~poll_complete')
       /\ raised # "none" => vars' = vars]_vars

C14_Witness ==
    /\ raised = "CommandException"
    /\ Len(procs) = 2
    /\ procs[2].poll
    /\ running = <<1>>
    /\ returncode = <<1>>
    /\ ~finished

\* C16: the job-start step runs at most once in a task, and while no error
\* is raised the completion predicate has been evaluated once for every line.
C16_HandledOnce ==
    kind \in PollingKinds
        => /\ startCalls <= 1
           /\ raised = "none" => doneCalls = Len(fed)

\* C18: the stored command of a deploy task and the command of each of its
\* processes start with the CLI name, hold it once, and hold the username
\* flag and the path flag at most once.
C18_CommandBuiltOnce ==
    kind = "SFDXDeploy"
        => \A c \in {options.command} \cup {procs[i].command : i \in DOMAIN procs} :
               /\ c[1] = SFDX_CLI
               /\ Count(c, SFDX_CLI) = 1
               /\ Count(c, "-u") <= 1
               /\ Count(c, "-d") <= 1

\* C19: every poll process of a deploy task has the session of the initial
\* process: the same environment, and the username flag exactly when the
\* initial command has it.
C19_PollsKeepSession ==
    kind = "SFDXDeploy"
        => \A i \in PollProcs :
               /\ procs[i].env = procs[1].env
               /\ HasFlag(procs[i].command, "-u", Username)
                      <=> HasFlag(procs[1].command, "-u", Username)
               /\ org_config = "ScratchOrgConfig" => HasFlag(procs[i].command, "-u", Username)
               /\ org_config # "ScratchOrgConfig"
                      => /\ "SFDX_INSTANCE_URL" \in DOMAIN procs[i].env
                         /\ procs[i].env["SFDX_INSTANCE_URL"] = InstanceUrl
                         /\ procs[i].env["SFDX_USERNAME"] = AccessToken

C19_Witness ==
    /\ kind = "SFDXDeploy"
    /\ org_config = "OrgConfig"
    /\ Len(procs) = 3
    /\ procs[2].poll /\ procs[3].poll
    /\ procs[3].requested # None

\* C15: polling does not go on without bound: whatever the poll processes
\* print, and also when none of them ever reports done, the run of the task
\* ends, normally or with an error, after finitely many poll processes.
C15_PollingTerminates == <>(finished \/ raised # "none")

====
